---- MODULE Spec2Model ----
(***************************************************************************)
(* Hayatab background script (src/background/background.js).               *)
(*                                                                         *)
(* Two specifications share this module:                                   *)
(*   SpecValidate  parseAndValidateGroups as a pure function: Init draws   *)
(*                 the parsed response and the tab-id list, one action     *)
(*                 applies the function.                                   *)
(*   Spec          the analyzeTabs message handler as an asynchronous      *)
(*                 process: every await is a separate step, several        *)
(*                 messages may be in flight at once.                      *)
(*                                                                         *)
(* JavaScript values are tagged records, so that a missing field, a value  *)
(* of the wrong type and a well-typed value stay distinct.                 *)
(***************************************************************************)
EXTENDS Integers, Sequences, FiniteSets, TLC

VARIABLES
    vText,      \* parseAndValidateGroups: the text argument, as a sequence of tokens
    vParsed,    \* parseAndValidateGroups: the value of `parsed` after the try block
    vTabIds,    \* parseAndValidateGroups: the allTabIds argument
    vResult,    \* parseAndValidateGroups: its outcome (return value or exception)
    vDone,      \* parseAndValidateGroups has been applied
    xProvider,  \* callAPI/extractText: the provider argument
    xFetch,     \* callAPI: how the fetch of lines 187-191 settles
    xApi,       \* callAPI: its outcome (return value or exception)
    xText,      \* extractText: its outcome (return value or exception)
    xResult,    \* lines 69-82: the response of the handler
    xDone,      \* lines 69-82 have run
    aGroups,    \* handleApplyGroups: the groups of the message
    aOpen,      \* the browser: ids of the tabs open in the current window
    aHasUpdate, \* the browser: browser.tabGroups.update exists
    aPc,        \* handleApplyGroups: the await it is suspended at
    aValid,     \* handleApplyGroups: validTabIds (line 88)
    aIndex,     \* handleApplyGroups: position of `group` in groups
    aApplied,   \* handleApplyGroups: applied (line 91)
    aCreated,   \* the browser: positions of the groups it has created
    aCalls,     \* history: the calls of browser.tabs.group, in order
    aResult,    \* handleApplyGroups: the response
    lAction,    \* per message to the listener: message.action
    lPc,        \* per message: in flight, delivered, pending, responded
    lOutcome,   \* per message: how the promise of its handler settled
    lResponses, \* per message: the arguments of the sendResponse calls
    lOpen,      \* per message: the listener returned true and has not answered
    store,      \* options pages: browser.storage.local, the settings keys
    sVersion,   \* which of the two settings pages the installed extension has
    sPc,        \* single-key page: ready, or suspended at the get of line 189
    sToSave,    \* single-key page: toSave as built before line 189
    sPrev,      \* single-key page: the provider the get of line 189 reads
    oPc,        \* per-provider page: the await loadSettings is at, or ready
    oActive,    \* per-provider page: activeProvider as loadSettings set it
    oTargetSet, \* per-provider page: allSavedData[targetKey] is set
    oOld,       \* per-provider page: oldData (line 525)
    sLast,      \* history: the last click on Save that got to its end
    storage,    \* browser.storage.local
    clock,      \* Date.now()
    ticks,      \* number of clock advances so far
    pc,         \* per message: the await the handler is suspended at
    settings,   \* per message: the object read from storage (line 43)
    now,        \* per message: the local `now` (line 58)
    tabs,       \* per message: ids of the tabs returned by tabs.query (line 65)
    result,     \* per message: the response passed to sendResponse
    sent,       \* per message: provider requests issued by this handling
    wire,       \* per message: the request passed to fetch (lines 187-191)
    lastPass,   \* history: Date.now() of the most recent gate pass, 0 if none
    prior       \* history: per message, lastPass when the message arrived

valVars == <<vText, vParsed, vTabIds, vResult, vDone>>
exVars  == <<xProvider, xFetch, xApi, xText, xResult, xDone>>
apVars  == <<aGroups, aOpen, aHasUpdate, aPc, aValid, aIndex, aApplied, aCreated,
             aCalls, aResult>>
liVars  == <<lAction, lPc, lOutcome, lResponses, lOpen>>
stVars  == <<store, sVersion, sPc, sToSave, sPrev, oPc, oActive, oTargetSet, oOld, sLast>>
bgVars  == <<storage, clock, ticks, pc, settings, now, tabs, result, sent, wire, lastPass, prior>>
vars    == <<vText, vParsed, vTabIds, vResult, vDone,
             xProvider, xFetch, xApi, xText, xResult, xDone,
             aGroups, aOpen, aHasUpdate, aPc, aValid, aIndex, aApplied, aCreated,
             aCalls, aResult,
             lAction, lPc, lOutcome, lResponses, lOpen,
             store, sVersion, sPc, sToSave, sPrev, oPc, oActive, oTargetSet, oOld, sLast,
             storage, clock, ticks, pc, settings, now, tabs, result, sent, wire, lastPass, prior>>

\* what a step of one part leaves alone
otherThanBg  == <<valVars, exVars, apVars, liVars, stVars>>
otherThanVal == <<bgVars, exVars, apVars, liVars, stVars>>
otherThanEx  == <<bgVars, valVars, apVars, liVars, stVars>>
otherThanAp  == <<bgVars, valVars, exVars, liVars, stVars>>
otherThanLi  == <<bgVars, valVars, exVars, apVars, stVars>>
otherThanSt  == <<bgVars, valVars, exVars, apVars, liVars>>

----------------------------------------------------------------------------
(* Bounds *)

MaxTabId == 3
MaxGroups == 2
MaxIdsPerGroup == 2
MaxTicks == 3
MaxTextLen == 6
NumMessages == 2
NumListenerMessages == 3
NumSinglePages == 2

----------------------------------------------------------------------------
(* JavaScript values *)

Str(s) == [t |-> "string", s |-> s]
Undefined == [t |-> "undefined", s |-> ""]
NumberValue == [t |-> "number", s |-> "7"]

Range(seq) == {seq[i] : i \in 1..Len(seq)}

SeqsUpTo(S, n) == UNION {[1..k -> S] : k \in 0..n}

\* An array of tab ids, or what stands where the array should be.
ArrayOf(items) == [t |-> "array", items |-> items]
NotAnArray == {[t |-> "undefined", items |-> <<>>], [t |-> "string", items |-> <<>>]}

\* A group object as JSON.parse may deliver it; null is a possible array element.
GroupObject(name, color, tabIds) ==
    [t |-> "object", name |-> name, color |-> color, tabIds |-> tabIds]
NullGroup ==
    [t |-> "null", name |-> "", color |-> Undefined, tabIds |-> [t |-> "undefined", items |-> <<>>]]

----------------------------------------------------------------------------
(* parseAndValidateGroups, background.js lines 234-272 *)

validColors ==
    {"blue", "cyan", "grey", "green", "orange", "pink", "purple", "red", "yellow"}

\* line 253: if (!validColors.has(group.color)) group.color = "grey"
\* Set.has compares by value and type, so only a string can be a member.
CoerceColorKeep(color) == color
CoerceColor(color) ==
    IF color.t = "string" /\ color.s \in validColors THEN color ELSE Str("grey")

\* lines 255-259: the filter callback, run over one group's tabIds from left
\* to right; assignedIds is shared by all groups and grows as ids are kept.
RECURSIVE FilterTabIdsNoDedup(_, _, _)
FilterTabIdsNoDedup(ids, allTabIdSet, assignedIds) ==
    IF ids = <<>> THEN [kept |-> <<>>, assignedIds |-> assignedIds]
    ELSE LET id   == Head(ids)
             drop == id \notin allTabIdSet
             rest == FilterTabIdsNoDedup(Tail(ids), allTabIdSet,
                        IF drop THEN assignedIds ELSE assignedIds \cup {id})
         IN [kept |-> IF drop THEN rest.kept ELSE <<id>> \o rest.kept,
             assignedIds |-> rest.assignedIds]

RECURSIVE FilterTabIdsNoMembership(_, _, _)
FilterTabIdsNoMembership(ids, allTabIdSet, assignedIds) ==
    IF ids = <<>> THEN [kept |-> <<>>, assignedIds |-> assignedIds]
    ELSE LET id   == Head(ids)
             drop == id \in assignedIds
             rest == FilterTabIdsNoMembership(Tail(ids), allTabIdSet,
                        IF drop THEN assignedIds ELSE assignedIds \cup {id})
         IN [kept |-> IF drop THEN rest.kept ELSE <<id>> \o rest.kept,
             assignedIds |-> rest.assignedIds]

RECURSIVE FilterTabIds(_, _, _)
FilterTabIds(ids, allTabIdSet, assignedIds) ==
    IF ids = <<>> THEN [kept |-> <<>>, assignedIds |-> assignedIds]
    ELSE LET id   == Head(ids)
             drop == id \notin allTabIdSet \/ id \in assignedIds
             rest == FilterTabIds(Tail(ids), allTabIdSet,
                        IF drop THEN assignedIds ELSE assignedIds \cup {id})
         IN [kept |-> IF drop THEN rest.kept ELSE <<id>> \o rest.kept,
             assignedIds |-> rest.assignedIds]

\* lines 251-260: the loop over parsed.groups. Reading a property of null
\* (group.color) and calling .filter on a tabIds that is not an array both
\* raise a TypeError, which nothing in the function catches.
RECURSIVE RepairLoop(_, _, _)
RepairLoop(groups, allTabIdSet, assignedIds) ==
    IF groups = <<>> THEN [t |-> "ok", groups |-> <<>>, assignedIds |-> assignedIds]
    ELSE LET group == Head(groups)
         IN IF group.t # "object" \/ group.tabIds.t # "array"
            THEN [t |-> "TypeError", groups |-> <<>>, assignedIds |-> assignedIds]
            ELSE LET f    == FilterTabIds(group.tabIds.items, allTabIdSet, assignedIds)
                     g    == [group EXCEPT !.color = CoerceColor(group.color),
                                           !.tabIds = ArrayOf(f.kept)]
                     rest == RepairLoop(Tail(groups), allTabIdSet, f.assignedIds)
                 IN IF rest.t = "ok"
                    THEN [rest EXCEPT !.groups = <<g>> \o rest.groups]
                    ELSE rest

\* line 263: parsed.groups.filter((g) => g.tabIds.length > 0)
RemoveEmptyGroupsKeepAll(groups) == groups
RemoveEmptyGroups(groups) ==
    SelectSeq(groups, LAMBDA g : Len(g.tabIds.items) > 0)

\* line 266: allTabIds.filter((id) => !assignedIds.has(id))
MissingIdsNone(allTabIds, assignedIds) == <<>>
MissingIds(allTabIds, assignedIds) ==
    SelectSeq(allTabIds, LAMBDA id : id \notin assignedIds)

\* lines 267-269: push the catch-all group when some id is missing
AppendOtherFirst(groups, missingIds) ==
    IF Len(missingIds) > 0
    THEN <<GroupObject("Other", Str("grey"), ArrayOf(missingIds))>> \o groups
    ELSE groups
AppendOther(groups, missingIds) ==
    IF Len(missingIds) > 0
    THEN Append(groups, GroupObject("Other", Str("grey"), ArrayOf(missingIds)))
    ELSE groups

Threw(error) == [t |-> error, groups |-> <<>>]

\* lines 234-272. `parsed` is the outcome of the try block of lines 236-241:
\* t = "SyntaxError" when JSON.parse threw, otherwise the parsed value.
parseAndValidateGroups(parsed, allTabIds) ==
    IF parsed.t = "SyntaxError" THEN Threw("InvalidJson")
    ELSE IF parsed.t = "null" THEN Threw("TypeError")
    ELSE IF parsed.groups.t # "array" \/ Len(parsed.groups.items) = 0
         THEN Threw("MissingGroups")
    ELSE LET loop == RepairLoop(parsed.groups.items, Range(allTabIds), {})
         IN IF loop.t # "ok" THEN Threw("TypeError")
            ELSE [t |-> "ok",
                  groups |-> AppendOther(RemoveEmptyGroups(loop.groups),
                                         MissingIds(allTabIds, loop.assignedIds))]

----------------------------------------------------------------------------
(* The try block of parseAndValidateGroups, lines 236-241. A response text *)
(* is a sequence of tokens: a code fence, the tag json, a newline, a blank, *)
(* or a complete JSON document.                                            *)

Fence == "FENCE"   \* three backquotes
JsonTag == "json"
Newline == "\n"
Blank == " "
Whitespace == {Newline, Blank}

GroupsField(t, items) == [t |-> t, items |-> items]
ParsedValue(t, groups) == [t |-> t, groups |-> groups]
SyntaxError == ParsedValue("SyntaxError", GroupsField("undefined", <<>>))

\* the JSON documents a response may hold (written without their inner quotes)
JsonNull == "null"
JsonNumber == "0"
JsonString == "'s'"
JsonEmptyObject == "{}"
JsonGroups == "{groups:[{name:Work,color:blue,tabIds:[1,2]}]}"
JsonTexts == {JsonNull, JsonNumber, JsonString, JsonEmptyObject, JsonGroups}

\* JSON.parse of one document
JsonValue(doc) ==
    IF doc = JsonNull THEN ParsedValue("null", GroupsField("undefined", <<>>))
    ELSE IF doc = JsonNumber THEN ParsedValue("number", GroupsField("undefined", <<>>))
    ELSE IF doc = JsonString THEN ParsedValue("string", GroupsField("undefined", <<>>))
    ELSE IF doc = JsonEmptyObject THEN ParsedValue("object", GroupsField("undefined", <<>>))
    ELSE ParsedValue("object", GroupsField("array",
            <<GroupObject("Work", Str("blue"), ArrayOf(<<1, 2>>))>>))

Front(seq) == SubSeq(seq, 1, Len(seq) - 1)
Last(seq) == seq[Len(seq)]

\* line 237: text.replace(/^FENCE(?:json)?\n?/, "")
StripOpener(text) ==
    IF text # <<>> /\ Head(text) = Fence
    THEN LET a == Tail(text)
             b == IF a # <<>> /\ Head(a) = JsonTag THEN Tail(a) ELSE a
         IN IF b # <<>> /\ Head(b) = Newline THEN Tail(b) ELSE b
    ELSE text

\* line 237: .replace(/\n?FENCE$/, "")
StripCloser(text) ==
    IF text # <<>> /\ Last(text) = Fence
    THEN LET a == Front(text)
         IN IF a # <<>> /\ Last(a) = Newline THEN Front(a) ELSE a
    ELSE text

\* line 237: .trim()
RECURSIVE TrimStart(_)
TrimStart(text) ==
    IF text # <<>> /\ Head(text) \in Whitespace THEN TrimStart(Tail(text)) ELSE text
RECURSIVE TrimEnd(_)
TrimEnd(text) ==
    IF text # <<>> /\ Last(text) \in Whitespace THEN TrimEnd(Front(text)) ELSE text
Trim(text) == TrimEnd(TrimStart(text))

Cleaned(text) == Trim(StripCloser(StripOpener(text)))

\* line 238: JSON.parse accepts one document with whitespace around it and
\* throws a SyntaxError on anything else
JsonParse(cleaned) ==
    LET doc == Trim(cleaned)
    IN IF Len(doc) = 1 /\ doc[1] \in JsonTexts THEN JsonValue(doc[1]) ELSE SyntaxError

\* lines 235-241: the value of `parsed` for a response text
ParsedOf(text) == JsonParse(Cleaned(text))

----------------------------------------------------------------------------
(* Inputs of parseAndValidateGroups *)

CandidateColors == {Str("blue"), Str("magenta"), Undefined, NumberValue}
CandidateNames == {"Work", "Other"}
CandidateIds == 1..MaxTabId

CandidateGroups ==
    {GroupObject(n, c, ArrayOf(ids)) :
        n \in CandidateNames, c \in CandidateColors,
        ids \in SeqsUpTo(CandidateIds, MaxIdsPerGroup)}
    \cup {GroupObject("Work", Str("blue"), a) : a \in NotAnArray}
    \cup {NullGroup}

\* what JSON.parse can leave in `parsed`
ParsedValues ==
    {ParsedValue("object", GroupsField("array", gs)) :
        gs \in SeqsUpTo(CandidateGroups, MaxGroups)}
    \cup {ParsedValue("object", GroupsField(t, <<>>)) : t \in {"undefined", "string"}}
    \cup {ParsedValue(t, GroupsField("undefined", <<>>)) :
            t \in {"SyntaxError", "null", "number"}}

\* tab ids are unique within a window: allTabIds has no repetition
TabIdLists ==
    {s \in SeqsUpTo(1..MaxTabId, MaxTabId) :
        \A i, j \in 1..Len(s) : i # j => s[i] # s[j]}

NoResult == [t |-> "none", groups |-> <<>>]

----------------------------------------------------------------------------
(* handleAnalyzeTabs, background.js lines 42-83 *)

DEFAULT_COOLDOWN_MS == 10000

ListenerMessages == 1..NumListenerMessages
Messages == 1..NumMessages

\* Date.now() advances by these amounts (milliseconds) between steps
TickSteps == {1, 4999, 5000}

\* A storage key that was never written reads as undefined; the handler only
\* tests such values for truthiness, so "" and 0 stand for every falsy value.
StorageValue(provider, apiKey, ollamaUrl, cooldown) ==
    [provider |-> provider, apiKey |-> apiKey, ollamaUrl |-> ollamaUrl,
     cooldown |-> cooldown, lastAnalysisTime |-> 0]

\* storage as the settings page leaves it (options.js lines 167-225), or empty
\* An ollama selection without a URL is the case lines 50-51 provide for:
\* storage is written outside background.js.
StoredSettings ==
    {StorageValue("", "", "", c) : c \in {0}}
    \cup {StorageValue("ollama", "", "", c) : c \in {0}}
    \cup {StorageValue("openai", k, "", c) : k \in {"", "sk-1"}, c \in {0, 5000}}
    \cup {StorageValue("ollama", "", "http://localhost:11434", c) : c \in {0, 5000}}

Response(ok, error, wait, groups) ==
    [ok |-> ok, error |-> error, wait |-> wait, groups |-> groups]
Failure(error) == Response(FALSE, error, 0, <<>>)
NoResponse == Response(FALSE, "none", 0, <<>>)

\* line 47
ProviderOf(s) == IF s.provider = "" THEN "claude" ELSE s.provider

\* lines 50-54
ConfigMissingKeyProvidersOnly(s) == ProviderOf(s) # "ollama" /\ s.apiKey = ""
ConfigMissing(s) ==
    IF ProviderOf(s) = "ollama" THEN s.ollamaUrl = "" ELSE s.apiKey = ""

\* line 57
CooldownOf(s) == IF s.cooldown = 0 THEN DEFAULT_COOLDOWN_MS ELSE s.cooldown

\* line 59
TooSoon(s, t) ==
    s.lastAnalysisTime # 0 /\ (t - s.lastAnalysisTime) < CooldownOf(s)

\* Math.ceil(x / 1000) for an integer x
CeilDiv1000(x) == IF x % 1000 = 0 THEN x \div 1000 ELSE (x \div 1000) + 1

\* line 60
WaitSecondsFloor(s, t) == (CooldownOf(s) - (t - s.lastAnalysisTime)) \div 1000
WaitSeconds(s, t) == CeilDiv1000(CooldownOf(s) - (t - s.lastAnalysisTime))

\* line 63: browser.storage.local.set({ lastAnalysisTime: now })
RecordAnalysisSkip(st, t) == st
RecordAnalysis(st, t) == [st EXCEPT !.lastAnalysisTime = t]

\* tabs.query results: unpinned tabs of the current window, in tab order
WindowTabLists == {<<>>, <<2, 1, 3>>}

----------------------------------------------------------------------------
(* callAPI lines 185-212 and extractText lines 214-232 *)

Providers == {"claude", "openai", "gemini", "ollama"}

\* the value found at the end of a property path
FieldValue(t, text) == [t |-> t, text |-> text]
Absent == FieldValue("undefined", <<>>)
TextField(text) == FieldValue("string", text)

\* JavaScript truthiness, as `!text` of line 230 uses it
Truthy(v) ==
    IF v.t \in {"undefined", "null"} THEN FALSE
    ELSE IF v.t = "string" THEN v.text # <<>>
    ELSE IF v.t = "number" THEN v.text # <<"0">>
    ELSE TRUE

\* The body of a 2xx response after res.json(): JSON null, or an object
\* that holds `field` at the end of the property path of provider `shape`
\* (shape "none": an object without any of the four paths).
ApiResponse(t, shape, field) == [t |-> t, shape |-> shape, field |-> field]
NoApiResponse == ApiResponse("undefined", "none", Absent)

\* The body of a response: what res.text() / res.json() find.
Body(kind, msg, value) == [kind |-> kind, msg |-> msg, value |-> value]

\* how fetch settles: rejected with a message, or a response with a status
FetchOutcome(settled, msg, status, body) ==
    [settled |-> settled, msg |-> msg, status |-> status, body |-> body]

Message(parts, status) == [parts |-> parts, status |-> status]
ApiOutcome(t, error, message, value) ==
    [t |-> t, error |-> error, message |-> message, value |-> value]
NoApiOutcome == ApiOutcome("none", "", Message(<<>>, 0), NoApiResponse)
ApiThrew(error, message) == ApiOutcome("threw", error, message, NoApiResponse)

\* line 196: res.ok
ResOkOnly200(status) == status = 200
ResOk(status) == status >= 200 /\ status <= 299

\* Kinds of body: "errorMessage" {error:{message:msg}}, "message"
\* {message:msg}, "jsonOther" a JSON object with neither, "jsonNull" the
\* document null, "json" a provider answer, "text" and "longText" (more than
\* 200 characters) not JSON, "empty", "unreadable" (reading the body fails).
ErrorBodyKinds ==
    {"errorMessage", "message", "jsonOther", "jsonNull", "text", "longText",
     "empty", "unreadable"}

\* lines 200-207: the message of an error response. Reading a property of
\* the parsed null raises inside the try block, so the catch branch takes
\* the text "null"; the message field of an ollama-shaped answer is an
\* object, which new Error() turns into a string.
ErrorMessage(status, body) ==
    LET fallback == Message(<<"API error">>, status)
    IN IF body.kind \in {"errorMessage", "message"} THEN Message(<<body.msg>>, 0)
       ELSE IF body.kind = "jsonNull" THEN Message(<<"null">>, 0)
       ELSE IF body.kind = "json" /\ body.value.shape = "ollama"
            THEN Message(<<"[object Object]">>, 0)
       ELSE IF body.kind = "text" THEN Message(<<body.msg>>, 0)
       ELSE IF body.kind = "longText" THEN Message(<<body.msg, "(first 200 characters)">>, 0)
       ELSE fallback

\* lines 185-211
callAPI(f) ==
    IF f.settled = "rejected"
    THEN ApiThrew("NetworkError", Message(<<"Network error: ", f.msg>>, 0))
    ELSE IF ~ResOk(f.status)
         THEN IF f.status = 401
              THEN ApiThrew("Unauthorized", Message(<<"Invalid API key. Check Settings.">>, 0))
              ELSE IF f.status = 429
              THEN ApiThrew("RateLimited",
                       Message(<<"Rate limited by provider. Wait a moment and try again.">>, 0))
              ELSE ApiThrew("ApiError", ErrorMessage(f.status, f.body))
         ELSE IF f.body.kind = "json"
              THEN ApiOutcome("returned", "", Message(<<>>, 0), f.body.value)
              ELSE IF f.body.kind = "jsonNull"
              THEN ApiOutcome("returned", "", Message(<<>>, 0),
                              ApiResponse("null", "none", Absent))
              ELSE IF f.body.kind \in {"errorMessage", "message", "jsonOther"}
              THEN ApiOutcome("returned", "", Message(<<>>, 0),
                              ApiResponse("object", "none", Absent))
              ELSE IF f.body.kind = "unreadable"
              THEN ApiThrew("TypeError", Message(<<"res.json">>, 0))
              ELSE ApiThrew("SyntaxError", Message(<<"res.json">>, 0))

\* lines 216-229: the switch; every other provider takes the claude path
PathOf(provider) ==
    IF provider \in {"openai", "gemini", "ollama"} THEN provider ELSE "claude"

TextOutcome(t, value) == [t |-> t, value |-> value]
NoText == TextOutcome("none", Absent)

\* lines 214-232. Optional chaining gives undefined for a path that breaks
\* off; the first property read of a null response raises a TypeError.
extractText(provider, apiResponse) ==
    IF apiResponse.t = "null" THEN TextOutcome("TypeError", Absent)
    ELSE LET text == IF apiResponse.shape = PathOf(provider)
                     THEN apiResponse.field ELSE Absent
         IN IF ~Truthy(text) THEN TextOutcome("EmptyResponse", Absent)
            ELSE TextOutcome("returned", text)

\* lines 69-82: callAPI, extractText, parseAndValidateGroups. A text that is
\* not a string has no replace method: the TypeError is raised inside the
\* try block of line 236 and reported as invalid JSON.
Outcome(provider, f, allTabIds) ==
    LET api == callAPI(f)
    IN IF api.t = "threw" THEN Failure(api.error)
       ELSE LET x == extractText(provider, api.value)
            IN IF x.t # "returned" THEN Failure(x.t)
               ELSE IF x.value.t # "string" THEN Failure("InvalidJson")
               ELSE LET v == parseAndValidateGroups(ParsedOf(x.value.text), allTabIds)
                    IN IF v.t = "ok" THEN Response(TRUE, "", 0, v.groups)
                       ELSE Failure(v.t)

NoBody == Body("empty", "", NoApiResponse)
JsonBody(provider, field) == Body("json", "", ApiResponse("object", PathOf(provider), field))

\* What new URL(u).hostname gives for the URLs considered: the empty string
\* for a URL without an authority, "unparsable" where new URL throws.
\* "localhost:11434" parses with scheme localhost: and no host; userinfo
\* before @ is not the host; the host is lower-cased.
UrlInputs ==
    {"", "not a url", "localhost:11434",
     "http://localhost:11434", "http://LOCALHOST:11434", "http://127.0.0.1:11434",
     "http://evil.example:11434", "http://localhost@evil.example"}

Hostname(u) ==
    IF u \in {"", "not a url"} THEN "unparsable"
    ELSE IF u = "localhost:11434" THEN ""
    ELSE IF u \in {"http://localhost:11434", "http://LOCALHOST:11434"} THEN "localhost"
    ELSE IF u = "http://127.0.0.1:11434" THEN "127.0.0.1"
    ELSE "evil.example"

\* lines 125-183: the host the request goes to
HostOf(provider, s) ==
    IF provider = "openai" THEN "api.openai.com"
    ELSE IF provider = "gemini" THEN "generativelanguage.googleapis.com"
    ELSE IF provider = "ollama"
         THEN Hostname(IF s.ollamaUrl = "" THEN "http://localhost:11434" ELSE s.ollamaUrl)
    ELSE "api.anthropic.com"

\* the properties of a tabs.Tab object (a selection), and line 68
BrowserTabFields ==
    {"id", "index", "windowId", "active", "pinned", "title", "url", "favIconUrl"}
tabData == BrowserTabFields \cap {"id", "title", "url"}

\* lines 121-191: the request. The key travels in a header (claude, openai)
\* or in the query string (gemini); the ollama request carries none.
Request(provider, host, key, tabFields, tabIds) ==
    [provider |-> provider, host |-> host, key |-> key,
     tabFields |-> tabFields, tabIds |-> tabIds]
NoRequest == Request("none", "", "", {}, <<>>)
RequestOf(provider, s, tabList) ==
    Request(provider, HostOf(provider, s),
            IF provider = "ollama" THEN "" ELSE s.apiKey, tabData, tabList)

----------------------------------------------------------------------------
(* The settings pages, options.js: the single-key page (lines 1-240) and   *)
(* the per-provider page (lines 242-608). An unset key of storage and an   *)
(* empty string are both "", a cooldown not set is 0.                      *)

SinglePages == 1..NumSinglePages

\* the providers whose credentialType is apiKey
KeyProviders == {"claude", "openai", "gemini"}

\* options.js line 294 and lines 515-519, 525: the keys of storage
Store(provider, apiKey, ollamaUrl, model, cooldown, keys, models) ==
    [provider |-> provider, apiKey |-> apiKey, ollamaUrl |-> ollamaUrl,
     model |-> model, cooldown |-> cooldown, keys |-> keys, models |-> models]
EmptyStore ==
    Store("", "", "", "", 0, [p \in KeyProviders |-> ""], [p \in Providers |-> ""])

\* what the user may have typed or chosen when clicking Save
KeyInputs(provider) ==
    IF provider = "claude" THEN {"", "sk-ant-1"}
    ELSE IF provider = "openai" THEN {"", "sk-1"}
    ELSE IF provider = "gemini" THEN {"", "AIza1"}
    ELSE {""}
ModelInputs(provider) ==
    IF provider = "claude" THEN {"claude-haiku-4-5-20251001"}
    ELSE IF provider = "openai" THEN {"gpt-4o-mini"}
    ELSE IF provider = "gemini" THEN {"gemini-2.0-flash"}
    ELSE {"custom"}
CustomModelInputs == {"", "my-model"}
CooldownInputs == {5000}

\* lines 210-216 and 580-586: new URL(urlValue) parses and the hostname is
\* localhost or 127.0.0.1
UrlAcceptedByPrefix(urlValue) ==
    urlValue \in {"http://localhost:11434", "http://localhost@evil.example"}
UrlAccepted(urlValue) ==
    /\ Hostname(urlValue) # "unparsable"
    /\ ~(Hostname(urlValue) # "localhost" /\ Hostname(urlValue) # "127.0.0.1")

\* toSave before the credentials are resolved (lines 170-186, 547-564)
SaveDraft(provider, cooldown, model) ==
    [provider |-> provider, cooldown |-> cooldown, model |-> model]
NoSave == SaveDraft("", 0, "")

OldData(apiKey, model) == [apiKey |-> apiKey, model |-> model]

\* one click on Save, as it ended
Attempt(provider, urlValue, outcome) ==
    [provider |-> provider, urlValue |-> urlValue, outcome |-> outcome]
NoAttempt == Attempt("", "", "none")

\* lines 167-189: the click on Save up to the first await
SaveClick(p) ==
    /\ sVersion = "singleKey"
    /\ sPc[p] = "ready"
    /\ \E provider \in Providers : \E model \in ModelInputs(provider),
          customModel \in CustomModelInputs, cooldown \in CooldownInputs :
          IF provider = "ollama" /\ model = "custom" /\ customModel = ""
          THEN /\ sLast' = Attempt(provider, "", "rejected")
               /\ UNCHANGED <<sPc, sToSave, sPrev>>
          ELSE /\ sToSave' = [sToSave EXCEPT ![p] =
                      SaveDraft(provider, cooldown,
                                IF provider = "ollama" /\ model = "custom"
                                THEN customModel ELSE model)]
               /\ sPrev' = [sPrev EXCEPT ![p] = store.provider]
               /\ sPc' = [sPc EXCEPT ![p] = "awaitGet"]
               /\ UNCHANGED sLast
    /\ UNCHANGED <<sVersion, store, oPc, oActive, oTargetSet, oOld>>
    /\ UNCHANGED otherThanSt

\* lines 190-225: the get has resolved; the credentials are read from the
\* page and storage.local.set is called
SaveWrite(p) ==
    /\ sVersion = "singleKey"
    /\ sPc[p] = "awaitGet"
    /\ LET d == sToSave[p]
           providerChanged == sPrev[p] # "" /\ sPrev[p] # d.provider
       IN IF d.provider \in KeyProviders
          THEN \E value \in KeyInputs(d.provider) :
                 /\ store' = [store EXCEPT
                        !.provider = d.provider, !.cooldown = d.cooldown,
                        !.model = d.model,
                        !.apiKey = IF value # "" THEN value
                                   ELSE IF providerChanged THEN "" ELSE @,
                        !.ollamaUrl = ""]
                 /\ sLast' = Attempt(d.provider, "", "saved")
          ELSE \E urlValue \in UrlInputs :
                 IF urlValue = "" \/ ~UrlAccepted(urlValue)
                 THEN /\ sLast' = Attempt(d.provider, urlValue, "rejected")
                      /\ UNCHANGED store
                 ELSE /\ store' = [store EXCEPT
                             !.provider = d.provider, !.cooldown = d.cooldown,
                             !.model = d.model,
                             !.ollamaUrl = urlValue, !.apiKey = ""]
                      /\ sLast' = Attempt(d.provider, urlValue, "saved")
    /\ sPc' = [sPc EXCEPT ![p] = "ready"]
    /\ sToSave' = [sToSave EXCEPT ![p] = NoSave]
    /\ sPrev' = [sPrev EXCEPT ![p] = ""]
    /\ UNCHANGED <<sVersion, oPc, oActive, oTargetSet, oOld>>
    /\ UNCHANGED otherThanSt

\* lines 249-289: storageKey, read from a snapshot of storage
StorageKeyValue(st, provider) ==
    IF provider = "ollama" THEN st.ollamaUrl ELSE st.keys[provider]

\* The extension is updated from the single-key page to the per-provider
\* page (which migrates the shared key, lines 524-539): the pages of the
\* old version are gone, with whatever their handlers were waiting for.
Upgrade ==
    /\ sVersion = "singleKey"
    /\ sVersion' = "perProvider"
    /\ sPc' = [p \in SinglePages |-> "ready"]
    /\ sToSave' = [p \in SinglePages |-> NoSave]
    /\ sPrev' = [p \in SinglePages |-> ""]
    /\ UNCHANGED <<store, oPc, oActive, oTargetSet, oOld, sLast>>
    /\ UNCHANGED otherThanSt

\* lines 514-521: the per-provider page opens; once loadSettings is over
\* its locals are of no further use (the page renders from allSavedData)
LoadStart ==
    /\ sVersion = "perProvider"
    /\ oPc = "closed"
    /\ oActive' = IF store.provider = "" THEN "claude" ELSE store.provider
    /\ oTargetSet' =
          (StorageKeyValue(store, IF store.provider = "" THEN "claude" ELSE store.provider) # "")
    /\ oPc' = "awaitGet1"
    /\ UNCHANGED <<sVersion, store, sPc, sToSave, sPrev, oOld, sLast>>
    /\ UNCHANGED otherThanSt

\* line 525
LoadOldData ==
    /\ oPc = "awaitGet1"
    /\ oOld' = OldData(store.apiKey, store.model)
    /\ oPc' = "awaitGet2"
    /\ UNCHANGED <<sVersion, store, sPc, sToSave, sPrev, oActive, oTargetSet, sLast>>
    /\ UNCHANGED otherThanSt

\* lines 526-536: the old shared key goes to the key of the active provider
LoadMigrate ==
    /\ oPc = "awaitGet2"
    /\ IF oOld.apiKey # "" /\ ~oTargetSet
       THEN /\ store' =
                 IF oActive = "ollama"
                 THEN [store EXCEPT
                         !.ollamaUrl = oOld.apiKey,
                         !.models["ollama"] = IF oOld.model # "" THEN oOld.model ELSE @]
                 ELSE [store EXCEPT
                         !.keys[oActive] = oOld.apiKey,
                         !.models[oActive] = IF oOld.model # "" THEN oOld.model ELSE @]
            /\ oPc' = "awaitSet"
            /\ UNCHANGED <<oActive, oTargetSet, oOld>>
       ELSE /\ oPc' = "ready"
            /\ oActive' = "claude"
            /\ oTargetSet' = FALSE
            /\ oOld' = OldData("", "")
            /\ UNCHANGED store
    /\ UNCHANGED <<sVersion, sPc, sToSave, sPrev, sLast>>
    /\ UNCHANGED otherThanSt

\* line 537
LoadRemove ==
    /\ oPc = "awaitSet"
    /\ store' = [store EXCEPT !.apiKey = "", !.model = ""]
    /\ oPc' = "ready"
    /\ oActive' = "claude"
    /\ oTargetSet' = FALSE
    /\ oOld' = OldData("", "")
    /\ UNCHANGED <<sVersion, sPc, sToSave, sPrev, sLast>>
    /\ UNCHANGED otherThanSt

\* lines 545-593 with the credentials of the other kind cleared, as the
\* single-key page does
SavePerProviderClearing ==
    /\ oPc = "ready"
    /\ \E provider \in Providers : \E model \in ModelInputs(provider),
          customModel \in CustomModelInputs, cooldown \in CooldownInputs :
          IF provider = "ollama" /\ model = "custom" /\ customModel = ""
          THEN /\ sLast' = Attempt(provider, "", "rejected")
               /\ UNCHANGED store
          ELSE LET m == IF provider = "ollama" /\ model = "custom"
                        THEN customModel ELSE model
               IN IF provider \in KeyProviders
                  THEN \E value \in KeyInputs(provider) :
                         /\ store' = [store EXCEPT
                                !.provider = provider, !.cooldown = cooldown,
                                !.models[provider] = m,
                                !.keys[provider] = IF value # "" THEN value ELSE @,
                                !.ollamaUrl = ""]
                         /\ sLast' = Attempt(provider, "", "saved")
                  ELSE \E urlValue \in UrlInputs :
                         IF urlValue = "" \/ ~UrlAccepted(urlValue)
                         THEN /\ sLast' = Attempt(provider, urlValue, "rejected")
                              /\ UNCHANGED store
                         ELSE /\ store' = [store EXCEPT
                                     !.provider = provider, !.cooldown = cooldown,
                                     !.models[provider] = m,
                                     !.ollamaUrl = urlValue]
                              /\ sLast' = Attempt(provider, urlValue, "saved")
    /\ UNCHANGED <<sVersion, sPc, sToSave, sPrev, oPc, oActive, oTargetSet, oOld>>
    /\ UNCHANGED otherThanSt

\* lines 545-593: a click on Save of the per-provider page, on the tab of
\* any provider; no await comes before storage.local.set
SavePerProvider ==
    /\ oPc = "ready"
    /\ \E provider \in Providers : \E model \in ModelInputs(provider),
          customModel \in CustomModelInputs, cooldown \in CooldownInputs :
          IF provider = "ollama" /\ model = "custom" /\ customModel = ""
          THEN /\ sLast' = Attempt(provider, "", "rejected")
               /\ UNCHANGED store
          ELSE LET m == IF provider = "ollama" /\ model = "custom"
                        THEN customModel ELSE model
               IN IF provider \in KeyProviders
                  THEN \E value \in KeyInputs(provider) :
                         /\ store' = [store EXCEPT
                                !.provider = provider, !.cooldown = cooldown,
                                !.models[provider] = m,
                                !.keys[provider] = IF value # "" THEN value ELSE @]
                         /\ sLast' = Attempt(provider, "", "saved")
                  ELSE \E urlValue \in UrlInputs :
                         IF urlValue = "" \/ ~UrlAccepted(urlValue)
                         THEN /\ sLast' = Attempt(provider, urlValue, "rejected")
                              /\ UNCHANGED store
                         ELSE /\ store' = [store EXCEPT
                                     !.provider = provider, !.cooldown = cooldown,
                                     !.models[provider] = m,
                                     !.ollamaUrl = urlValue]
                              /\ sLast' = Attempt(provider, urlValue, "saved")
    /\ UNCHANGED <<sVersion, sPc, sToSave, sPrev, oPc, oActive, oTargetSet, oOld>>
    /\ UNCHANGED otherThanSt

\* the per-provider page is closed, to be opened again
ClosePage ==
    /\ oPc = "ready"
    /\ oPc' = "closed"
    /\ UNCHANGED <<sVersion, store, sPc, sToSave, sPrev, oActive, oTargetSet, oOld, sLast>>
    /\ UNCHANGED otherThanSt

\* what handleAnalyzeTabs reads of the stored settings (line 43)
SettingsOf(st) == StorageValue(st.provider, st.apiKey, st.ollamaUrl, st.cooldown)

\* the ways the request of one handling may end
NetOutcomes(provider) ==
    {FetchOutcome("rejected", "NetworkError when attempting to fetch resource.", 0, NoBody)}
    \cup {FetchOutcome("response", "", st, NoBody) : st \in {401, 429, 500}}
    \cup {FetchOutcome("response", "", 200, JsonBody(provider, v)) :
            v \in {Absent, TextField(<<Fence>>), TextField(<<JsonGroups>>),
                   TextField(<<JsonNull>>)}}

\* lines 30-40 and 42-45: the listener starts the handler, which issues the
\* storage read and suspends. The storage backend serves requests in the
\* order they were issued, so the read returns the storage of this moment.
Receive(p) ==
    /\ pc[p] = "idle"
    /\ pc' = [pc EXCEPT ![p] = "awaitGet"]
    /\ settings' = [settings EXCEPT ![p] = storage]
    /\ prior' = [prior EXCEPT ![p] = lastPass]
    /\ UNCHANGED <<storage, clock, ticks, now, tabs, result, sent, lastPass, wire>>
    /\ UNCHANGED otherThanBg

\* lines 47-63 with a refusal written to storage like a pass
GateRecordsRefusal(p) ==
    /\ pc[p] = "awaitGet"
    /\ IF ConfigMissing(settings[p])
       THEN /\ result' = [result EXCEPT ![p] = Failure("ConfigError")]
            /\ pc' = [pc EXCEPT ![p] = "done"]
            /\ UNCHANGED <<storage, now, lastPass>>
       ELSE /\ now' = [now EXCEPT ![p] = clock]
            /\ storage' = RecordAnalysis(storage, clock)
            /\ IF TooSoon(settings[p], clock)
               THEN /\ result' = [result EXCEPT ![p] =
                          Response(FALSE, "TooSoon", WaitSeconds(settings[p], clock), <<>>)]
                    /\ pc' = [pc EXCEPT ![p] = "done"]
                    /\ UNCHANGED lastPass
               ELSE /\ lastPass' = clock
                    /\ pc' = [pc EXCEPT ![p] = "awaitSet"]
                    /\ UNCHANGED result
    /\ UNCHANGED <<clock, ticks, settings, tabs, sent, prior, wire>>
    /\ UNCHANGED otherThanBg

\* lines 47-63: runs without suspension from the resolution of the storage
\* read to the call of storage.local.set
Gate(p) ==
    /\ pc[p] = "awaitGet"
    /\ IF ConfigMissing(settings[p])
       THEN /\ result' = [result EXCEPT ![p] = Failure("ConfigError")]
            /\ pc' = [pc EXCEPT ![p] = "done"]
            /\ UNCHANGED <<storage, now, lastPass>>
       ELSE /\ now' = [now EXCEPT ![p] = clock]
            /\ IF TooSoon(settings[p], clock)
               THEN /\ result' = [result EXCEPT ![p] =
                          Response(FALSE, "TooSoon", WaitSeconds(settings[p], clock), <<>>)]
                    /\ pc' = [pc EXCEPT ![p] = "done"]
                    /\ UNCHANGED <<storage, lastPass>>
               ELSE /\ storage' = RecordAnalysis(storage, clock)
                    /\ lastPass' = clock
                    /\ pc' = [pc EXCEPT ![p] = "awaitSet"]
                    /\ UNCHANGED result
    /\ UNCHANGED <<clock, ticks, settings, tabs, sent, prior, wire>>
    /\ UNCHANGED otherThanBg

\* line 65: after the storage write resolves, tabs.query is issued
QueryTabs(p) ==
    /\ pc[p] = "awaitSet"
    /\ \E w \in WindowTabLists : tabs' = [tabs EXCEPT ![p] = w]
    /\ pc' = [pc EXCEPT ![p] = "awaitTabs"]
    /\ UNCHANGED <<storage, clock, ticks, settings, now, result, sent, wire, lastPass, prior>>
    /\ UNCHANGED otherThanBg

\* lines 66-69 and callAPI lines 119-191: up to the call of fetch
SendRequest(p) ==
    /\ pc[p] = "awaitTabs"
    /\ IF Len(tabs[p]) = 0
       THEN /\ result' = [result EXCEPT ![p] = Failure("NoTabs")]
            /\ pc' = [pc EXCEPT ![p] = "done"]
            /\ UNCHANGED <<sent, wire>>
       ELSE /\ sent' = [sent EXCEPT ![p] = sent[p] + 1]
            /\ wire' = [wire EXCEPT ![p] =
                          RequestOf(ProviderOf(settings[p]), settings[p], tabs[p])]
            /\ pc' = [pc EXCEPT ![p] = "awaitFetch"]
            /\ UNCHANGED result
    /\ UNCHANGED <<storage, clock, ticks, settings, now, tabs, lastPass, prior>>
    /\ UNCHANGED otherThanBg

\* callAPI lines 192-211, then lines 70-82
\* lines 69-82 with a failed request sent again
FetchSettledRetry(p) ==
    /\ pc[p] = "awaitFetch"
    /\ \E o \in NetOutcomes(ProviderOf(settings[p])) :
          LET r == Outcome(ProviderOf(settings[p]), o, tabs[p])
          IN IF r.ok
             THEN /\ result' = [result EXCEPT ![p] = r]
                  /\ pc' = [pc EXCEPT ![p] = "done"]
             ELSE /\ pc' = [pc EXCEPT ![p] = "awaitTabs"]
                  /\ UNCHANGED result
    /\ UNCHANGED <<storage, clock, ticks, settings, now, tabs, sent, lastPass, prior, wire>>
    /\ UNCHANGED otherThanBg

\* lines 69-82 and the then/catch of lines 37-38: the request settles, the
\* rest of the handler runs without suspension
FetchSettled(p) ==
    /\ pc[p] = "awaitFetch"
    /\ \E o \in NetOutcomes(ProviderOf(settings[p])) :
          result' = [result EXCEPT ![p] = Outcome(ProviderOf(settings[p]), o, tabs[p])]
    /\ pc' = [pc EXCEPT ![p] = "done"]
    /\ UNCHANGED <<storage, clock, ticks, settings, now, tabs, sent, lastPass, prior, wire>>
    /\ UNCHANGED otherThanBg

\* lines 37-38: sendResponse; the handling of this message is over
Respond(p) ==
    /\ pc[p] = "done"
    /\ pc' = [pc EXCEPT ![p] = "idle"]
    /\ settings' = [settings EXCEPT ![p] = StorageValue("", "", "", 0)]
    /\ now' = [now EXCEPT ![p] = 0]
    /\ tabs' = [tabs EXCEPT ![p] = <<>>]
    /\ result' = [result EXCEPT ![p] = NoResponse]
    /\ sent' = [sent EXCEPT ![p] = 0]
    /\ wire' = [wire EXCEPT ![p] = NoRequest]
    /\ UNCHANGED <<storage, clock, ticks, lastPass, prior>>
    /\ UNCHANGED otherThanBg

\* time passes
Tick ==
    /\ ticks < MaxTicks
    /\ \E d \in TickSteps : clock' = clock + d
    /\ ticks' = ticks + 1
    /\ UNCHANGED <<storage, pc, settings, now, tabs, result, sent, wire, lastPass, prior>>
    /\ UNCHANGED otherThanBg

BgInit ==
    /\ storage \in StoredSettings
    /\ clock = 1
    /\ ticks = 0
    /\ pc = [p \in Messages |-> "idle"]
    /\ settings = [p \in Messages |-> StorageValue("", "", "", 0)]
    /\ now = [p \in Messages |-> 0]
    /\ tabs = [p \in Messages |-> <<>>]
    /\ result = [p \in Messages |-> NoResponse]
    /\ sent = [p \in Messages |-> 0]
    /\ wire = [p \in Messages |-> NoRequest]
    /\ lastPass = 0
    /\ prior = [p \in Messages |-> 0]

ValIdle ==
    /\ vText = <<>>
    /\ vParsed = ParsedValue("SyntaxError", GroupsField("undefined", <<>>))
    /\ vTabIds = <<>>
    /\ vResult = NoResult
    /\ vDone = FALSE

ExIdle ==
    /\ xProvider = "claude"
    /\ xFetch = FetchOutcome("rejected", "", 0, NoBody)
    /\ xApi = NoApiOutcome
    /\ xText = NoText
    /\ xResult = NoResponse
    /\ xDone = FALSE

BgIdle ==
    /\ storage = StorageValue("", "", "", 0)
    /\ clock = 1
    /\ ticks = 0
    /\ pc = [p \in Messages |-> "idle"]
    /\ settings = [p \in Messages |-> StorageValue("", "", "", 0)]
    /\ now = [p \in Messages |-> 0]
    /\ tabs = [p \in Messages |-> <<>>]
    /\ result = [p \in Messages |-> NoResponse]
    /\ sent = [p \in Messages |-> 0]
    /\ wire = [p \in Messages |-> NoRequest]
    /\ lastPass = 0
    /\ prior = [p \in Messages |-> 0]

ApIdle ==
    /\ aGroups = <<>>
    /\ aOpen = {}
    /\ aHasUpdate = FALSE
    /\ aPc = "idle"
    /\ aValid = {}
    /\ aIndex = 0
    /\ aApplied = 0
    /\ aCreated = {}
    /\ aCalls = <<>>
    /\ aResult = NoResponse

LiIdle ==
    /\ lAction = [m \in ListenerMessages |-> ""]
    /\ lPc = [m \in ListenerMessages |-> "none"]
    /\ lOutcome = [m \in ListenerMessages |-> "none"]
    /\ lResponses = [m \in ListenerMessages |-> <<>>]
    /\ lOpen = [m \in ListenerMessages |-> FALSE]

StIdle ==
    /\ store = EmptyStore
    /\ sVersion = "singleKey"
    /\ sPc = [p \in SinglePages |-> "ready"]
    /\ sToSave = [p \in SinglePages |-> NoSave]
    /\ sPrev = [p \in SinglePages |-> ""]
    /\ oPc = "closed"
    /\ oActive = "claude"
    /\ oTargetSet = FALSE
    /\ oOld = OldData("", "")
    /\ sLast = NoAttempt

\* every part but one is not running
IdleBut(part) ==
    /\ part = "bg" \/ BgIdle
    /\ part = "val" \/ ValIdle
    /\ part = "ex" \/ ExIdle
    /\ part = "ap" \/ ApIdle
    /\ part = "li" \/ LiIdle
    /\ part = "st" \/ StIdle

Init == BgInit /\ IdleBut("bg")

Next ==
    \/ \E p \in Messages : Receive(p)
    \/ \E p \in Messages : Gate(p)
    \/ \E p \in Messages : QueryTabs(p)
    \/ \E p \in Messages : SendRequest(p)
    \/ \E p \in Messages : FetchSettled(p)
    \/ \E p \in Messages : Respond(p)
    \/ Tick

Spec == Init /\ [][Next]_vars

----------------------------------------------------------------------------
(* parseAndValidateGroups applied to every input within the bounds *)

InitValidate ==
    /\ vText = <<>>
    /\ vParsed \in ParsedValues
    /\ vTabIds \in TabIdLists
    /\ vResult = NoResult
    /\ vDone = FALSE
    /\ IdleBut("val")

Validate ==
    /\ ~vDone
    /\ vResult' = parseAndValidateGroups(vParsed, vTabIds)
    /\ vDone' = TRUE
    /\ UNCHANGED <<vText, vParsed, vTabIds>>
    /\ UNCHANGED otherThanVal

NextValidate == Validate

SpecValidate == InitValidate /\ [][NextValidate]_vars

----------------------------------------------------------------------------
(* parseAndValidateGroups applied to every response text within the bounds *)

TextTokens == {Fence, JsonTag, Newline, Blank} \cup JsonTexts
ResponseTexts == SeqsUpTo(TextTokens, MaxTextLen)

InitParse ==
    /\ vText \in ResponseTexts
    /\ vParsed = SyntaxError
    /\ vTabIds = <<2, 1, 3>>
    /\ vResult = NoResult
    /\ vDone = FALSE
    /\ IdleBut("val")

ParseText ==
    /\ ~vDone
    /\ vParsed' = ParsedOf(vText)
    /\ vResult' = parseAndValidateGroups(ParsedOf(vText), vTabIds)
    /\ vDone' = TRUE
    /\ UNCHANGED <<vText, vTabIds>>
    /\ UNCHANGED otherThanVal

NextParse == ParseText

SpecParse == InitParse /\ [][NextParse]_vars

----------------------------------------------------------------------------
(* callAPI, extractText and the rest of lines 69-82 applied to every       *)
(* settled fetch within the bounds                                         *)

KnownProviders == Providers \cup {"mistral"}

FieldValues ==
    {Absent, FieldValue("null", <<>>), TextField(<<>>), TextField(<<JsonGroups>>),
     FieldValue("number", <<"0">>), FieldValue("number", <<"42">>),
     FieldValue("boolean", <<"false">>), FieldValue("object", <<>>)}

ApiResponses ==
    {ApiResponse("object", shape, v) : shape \in Providers, v \in FieldValues \ {Absent}}
    \cup {ApiResponse("object", "none", Absent)}

Statuses == {200, 204, 299, 301, 401, 404, 429, 500}

Bodies ==
    {Body(k, "model not found", NoApiResponse) : k \in ErrorBodyKinds}
    \cup {Body("json", "", r) : r \in ApiResponses}

FetchOutcomes ==
    {FetchOutcome("rejected", m, 0, NoBody) :
        m \in {"NetworkError when attempting to fetch resource.", "Failed to fetch"}}
    \cup {FetchOutcome("response", "", st, b) : st \in Statuses, b \in Bodies}

InitExtract ==
    /\ xProvider \in KnownProviders
    /\ xFetch \in FetchOutcomes
    /\ xApi = NoApiOutcome
    /\ xText = NoText
    /\ xResult = NoResponse
    /\ xDone = FALSE
    /\ IdleBut("ex")

\* line 69
CallApiStep ==
    /\ xApi.t = "none"
    /\ xApi' = callAPI(xFetch)
    /\ UNCHANGED <<xProvider, xFetch, xText, xResult, xDone>>
    /\ UNCHANGED otherThanEx

\* line 70
ExtractTextStep ==
    /\ xApi.t = "returned"
    /\ xText.t = "none"
    /\ xText' = extractText(xProvider, xApi.value)
    /\ UNCHANGED <<xProvider, xFetch, xApi, xResult, xDone>>
    /\ UNCHANGED otherThanEx

\* lines 71-82, and the catch of line 38 for whatever was thrown
FinishStep ==
    /\ ~xDone
    /\ xApi.t = "threw" \/ xText.t # "none"
    /\ xResult' = Outcome(xProvider, xFetch, <<2, 1, 3>>)
    /\ xDone' = TRUE
    /\ UNCHANGED <<xProvider, xFetch, xApi, xText>>
    /\ UNCHANGED otherThanEx

NextExtract == CallApiStep \/ ExtractTextStep \/ FinishStep

SpecExtract == InitExtract /\ [][NextExtract]_vars

----------------------------------------------------------------------------
(* handleApplyGroups, background.js lines 85-117. The browser is the other *)
(* party: it settles tabs.group and tabGroups.update either way, and tabs  *)
(* close while the handler is suspended.                                   *)

\* the groups the popup holds: a result of parseAndValidateGroups, so every
\* group is non-empty and no id occurs twice
ApplyGroups ==
    {GroupObject("Work", Str("blue"), ArrayOf(ids)) :
        ids \in {q \in TabIdLists : Len(q) \in 1..MaxIdsPerGroup}}

ApplyGroupLists ==
    {gs \in SeqsUpTo(ApplyGroups, MaxGroups) :
        /\ gs # <<>>
        /\ \A i, j \in 1..Len(gs) :
              i # j => Range(gs[i].tabIds.items) \cap Range(gs[j].tabIds.items) = {}}

\* line 94
ValidIds(group, validTabIds) ==
    SelectSeq(group.tabIds.items, LAMBDA id : id \in validTabIds)

\* lines 92-95: the loop runs on, skipping the groups without a valid id,
\* to the next group it calls the browser for
RECURSIVE NextIndex(_, _, _)
NextIndex(groups, validTabIds, i) ==
    IF i > Len(groups) THEN i
    ELSE IF Len(ValidIds(groups[i], validTabIds)) = 0
         THEN NextIndex(groups, validTabIds, i + 1)
         ELSE i

GroupCall(index, tabIds) == [index |-> index, tabIds |-> tabIds]

\* lines 92-116 from position i on, up to the next await or the return
Continue(validTabIds, i, applied) ==
    LET j == NextIndex(aGroups, validTabIds, i)
    IN /\ aIndex' = j
       /\ IF j > Len(aGroups)
          THEN /\ aPc' = "done"
               /\ aResult' = IF applied = 0 THEN Failure("NoGroupsApplied")
                              ELSE Response(TRUE, "", 0, <<>>)
               /\ UNCHANGED aCalls
          ELSE /\ aPc' = "awaitGroup"
               /\ aCalls' = Append(aCalls, GroupCall(j, ValidIds(aGroups[j], validTabIds)))
               /\ UNCHANGED aResult

InitApply ==
    /\ aGroups \in ApplyGroupLists
    /\ aOpen \in SUBSET (1..MaxTabId)
    /\ aHasUpdate \in BOOLEAN
    /\ aPc = "awaitQuery"
    /\ aValid = {}
    /\ aIndex = 0
    /\ aApplied = 0
    /\ aCreated = {}
    /\ aCalls = <<>>
    /\ aResult = NoResponse
    /\ IdleBut("ap")

\* lines 86-91
QueryResolved ==
    /\ aPc = "awaitQuery"
    /\ IF aOpen = {}
       THEN /\ aResult' = Failure("NoOpenTabs")
            /\ aPc' = "done"
            /\ UNCHANGED <<aValid, aIndex, aCalls>>
       ELSE /\ aValid' = aOpen
            /\ Continue(aOpen, 1, 0)
    /\ UNCHANGED <<aGroups, aOpen, aHasUpdate, aApplied, aCreated>>
    /\ UNCHANGED otherThanAp

\* lines 98-110: tabs.group resolves, the browser has made the group
GroupResolved ==
    /\ aPc = "awaitGroup"
    /\ Range(aCalls[Len(aCalls)].tabIds) \subseteq aOpen
    /\ aCreated' = aCreated \cup {aIndex}
    /\ IF aHasUpdate
       THEN /\ aPc' = "awaitUpdate"
            /\ UNCHANGED <<aIndex, aApplied, aCalls, aResult>>
       ELSE /\ aApplied' = aApplied + 1
            /\ Continue(aValid, aIndex + 1, aApplied + 1)
    /\ UNCHANGED <<aGroups, aOpen, aHasUpdate, aValid>>
    /\ UNCHANGED otherThanAp

\* lines 98-101 and 111-113: tabs.group rejects
GroupRejected ==
    /\ aPc = "awaitGroup"
    /\ Continue(aValid, aIndex + 1, aApplied)
    /\ UNCHANGED <<aGroups, aOpen, aHasUpdate, aValid, aApplied, aCreated>>
    /\ UNCHANGED otherThanAp

\* lines 104-110: tabGroups.update resolves
UpdateResolved ==
    /\ aPc = "awaitUpdate"
    /\ aApplied' = aApplied + 1
    /\ Continue(aValid, aIndex + 1, aApplied + 1)
    /\ UNCHANGED <<aGroups, aOpen, aHasUpdate, aValid, aCreated>>
    /\ UNCHANGED otherThanAp

\* lines 104-108 and 111-113: tabGroups.update rejects; line 110 is skipped
UpdateRejected ==
    /\ aPc = "awaitUpdate"
    /\ Continue(aValid, aIndex + 1, aApplied)
    /\ UNCHANGED <<aGroups, aOpen, aHasUpdate, aValid, aApplied, aCreated>>
    /\ UNCHANGED otherThanAp

\* the user closes a tab while the handler is suspended
CloseTab ==
    /\ aPc \in {"awaitQuery", "awaitGroup", "awaitUpdate"}
    /\ \E t \in aOpen : aOpen' = aOpen \ {t}
    /\ UNCHANGED <<aGroups, aHasUpdate, aPc, aValid, aIndex, aApplied, aCreated,
                   aCalls, aResult>>
    /\ UNCHANGED otherThanAp

NextApply ==
    \/ QueryResolved
    \/ GroupResolved
    \/ GroupRejected
    \/ UpdateResolved
    \/ UpdateRejected
    \/ CloseTab

SpecApply == InitApply /\ [][NextApply]_vars

----------------------------------------------------------------------------
(* The settings pages, saving and loading in any order *)

\* a fresh installation: nothing stored, the single-key pages open, the
\* per-provider page not yet
InitSettings == StIdle /\ IdleBut("st")

NextSettings ==
    \/ \E p \in SinglePages : SaveClick(p) \/ SaveWrite(p)
    \/ Upgrade
    \/ LoadStart
    \/ LoadOldData
    \/ LoadMigrate
    \/ LoadRemove
    \/ SavePerProvider
    \/ ClosePage

SpecSettings == InitSettings /\ [][NextSettings]_vars

----------------------------------------------------------------------------
(* The onMessage listener, background.js lines 25-40, with the handlers as *)
(* promises that settle one way or the other.                              *)

\* lines 25-28
handlers == {"analyzeTabs", "applyGroups"}

\* the actions popup.js sends (lines 86, 101, 180)
PopupActions == {"getPendingGroups", "analyzeTabs", "applyGroups"}

\* line 33
UnknownAction(action) ==
    IF action = "getPendingGroups"
    THEN Failure("Unknown action: getPendingGroups")
    ELSE Failure("Unknown action: ...")

\* what the promise of a handler rejects with
HandlerErrors(action) ==
    IF action = "analyzeTabs" THEN {"ConfigError", "NetworkError"}
    ELSE {"NoOpenTabs", "NoGroupsApplied"}

InitListener ==
    /\ lAction = [m \in ListenerMessages |-> ""]
    /\ lPc = [m \in ListenerMessages |-> "none"]
    /\ lOutcome = [m \in ListenerMessages |-> "none"]
    /\ lResponses = [m \in ListenerMessages |-> <<>>]
    /\ lOpen = [m \in ListenerMessages |-> FALSE]
    /\ IdleBut("li")

\* popup.js: browser.runtime.sendMessage
PopupSend(m) ==
    /\ lPc[m] = "none"
    /\ \E a \in PopupActions : lAction' = [lAction EXCEPT ![m] = a]
    /\ lPc' = [lPc EXCEPT ![m] = "delivered"]
    /\ UNCHANGED <<lOutcome, lResponses, lOpen>>
    /\ UNCHANGED otherThanLi

\* lines 30-40 with every action started as if it had a handler
ListenerAlwaysAsync(m) ==
    /\ lPc[m] = "delivered"
    /\ lPc' = [lPc EXCEPT ![m] = "pending"]
    /\ lOpen' = [lOpen EXCEPT ![m] = TRUE]
    /\ UNCHANGED <<lAction, lOutcome, lResponses>>
    /\ UNCHANGED otherThanLi

\* lines 30-40: the listener runs for a delivered message
Listener(m) ==
    /\ lPc[m] = "delivered"
    /\ IF lAction[m] \notin handlers
       THEN /\ lResponses' = [lResponses EXCEPT ![m] = Append(@, UnknownAction(lAction[m]))]
            /\ lPc' = [lPc EXCEPT ![m] = "responded"]
            /\ UNCHANGED lOpen
       ELSE /\ lPc' = [lPc EXCEPT ![m] = "pending"]
            /\ lOpen' = [lOpen EXCEPT ![m] = TRUE]
            /\ UNCHANGED lResponses
    /\ UNCHANGED <<lAction, lOutcome>>
    /\ UNCHANGED otherThanLi

\* lines 36-38: the promise of the handler settles, then or catch calls
\* sendResponse, which closes the channel
Settle(m) ==
    /\ lPc[m] = "pending"
    /\ \/ /\ lOutcome' = [lOutcome EXCEPT ![m] = "resolved"]
          /\ lResponses' = [lResponses EXCEPT ![m] = Append(@, Response(TRUE, "", 0, <<>>))]
       \/ /\ lOutcome' = [lOutcome EXCEPT ![m] = "rejected"]
          /\ \E err \in HandlerErrors(lAction[m]) :
                lResponses' = [lResponses EXCEPT ![m] = Append(@, Failure(err))]
    /\ lPc' = [lPc EXCEPT ![m] = "responded"]
    /\ lOpen' = [lOpen EXCEPT ![m] = FALSE]
    /\ UNCHANGED lAction
    /\ UNCHANGED otherThanLi

NextListener ==
    \E m \in ListenerMessages : PopupSend(m) \/ Listener(m) \/ Settle(m)

\* a delivered message is dispatched, and the browser calls a handler
\* awaits settle
SpecListener ==
    /\ InitListener
    /\ [][NextListener]_vars
    /\ \A m \in ListenerMessages : WF_vars(Listener(m)) /\ WF_vars(Settle(m))

----------------------------------------------------------------------------
(* Properties of parseAndValidateGroups (SpecValidate).                    *)
(* The expected output is stated from the candidate alone, without the     *)
(* loop: which candidate group lists an id first, and which ids nobody     *)
(* lists.                                                                  *)

candidate == vParsed.groups.items
returned == vResult.groups
TabIdSet == Range(vTabIds)
IdsOf(g) == Range(g.tabIds.items)

\* the parsed value is an object whose groups field is an array
HasGroupsArray == vParsed.t = "object" /\ vParsed.groups.t = "array"

\* every element is an object with an array tabIds (the wire schema)
WellFormed ==
    /\ HasGroupsArray
    /\ \A i \in 1..Len(candidate) :
          candidate[i].t = "object" /\ candidate[i].tabIds.t = "array"

Returned == vDone /\ vResult.t = "ok"

Listed(i) == IdsOf(candidate[i])
IsListed(id) == \E i \in 1..Len(candidate) : id \in Listed(i)
FirstLister(id) ==
    CHOOSE i \in 1..Len(candidate) :
        id \in Listed(i) /\ \A j \in 1..(i - 1) : id \notin Listed(j)
\* the ids of T that candidate group i is the first to list
Claimed(i) == {id \in TabIdSet \cap Listed(i) : FirstLister(id) = i}
Survivors == {i \in 1..Len(candidate) : Claimed(i) # {}}
NthSurvivor(k) ==
    CHOOSE i \in Survivors : Cardinality({j \in Survivors : j < i}) = k - 1
Unclaimed == {id \in TabIdSet : ~IsListed(id)}
FirstPos(seq, x) ==
    CHOOSE a \in 1..Len(seq) : seq[a] = x /\ \A b \in 1..(a - 1) : seq[b] # x
NoRepeat(seq) == \A a, b \in 1..Len(seq) : a # b => seq[a] # seq[b]

SpecColors ==
    {"blue", "cyan", "grey", "green", "orange", "pink", "purple", "red", "yellow"}

\* C1 as stated: for every tab-id list and every candidate array of
\* well-formed groups, the empty array included, the function returns a list
\* whose tabIds union is exactly the input tab-id set.
C1_TotalityAsStated ==
    (vDone /\ WellFormed) =>
        /\ vResult.t = "ok"
        /\ UNION {IdsOf(returned[k]) : k \in 1..Len(returned)} = TabIdSet

\* C1 amended: for every tab-id list and every NON-EMPTY candidate array of
\* well-formed groups the function returns a list whose tabIds union is
\* exactly the input tab-id set; an empty array is rejected with
\* "Response missing groups".
C1_Totality ==
    (vDone /\ WellFormed) =>
        IF Len(candidate) = 0
        THEN vResult.t = "MissingGroups"
        ELSE /\ vResult.t = "ok"
             /\ UNION {IdsOf(returned[k]) : k \in 1..Len(returned)} = TabIdSet

\* every candidate group lists only ids that are not open tabs, yet all
\* tabs come back
C1_Witness ==
    /\ Returned
    /\ Len(candidate) = MaxGroups
    /\ Len(vTabIds) > 0
    /\ \A i \in 1..Len(candidate) : Listed(i) # {} /\ Listed(i) \cap TabIdSet = {}
    /\ UNION {IdsOf(returned[k]) : k \in 1..Len(returned)} = TabIdSet

\* C2: in every returned list no tab id occurs twice, neither in two groups
\* nor twice within one group.
C2_Disjoint ==
    Returned =>
        \A k, l \in 1..Len(returned) :
            \A a \in 1..Len(returned[k].tabIds.items) :
                \A b \in 1..Len(returned[l].tabIds.items) :
                    (k # l \/ a # b) =>
                        returned[k].tabIds.items[a] # returned[l].tabIds.items[b]

\* the candidate repeats an open tab's id inside its first group and lists
\* it again in its second group
C2_Witness ==
    /\ Returned
    /\ Len(candidate) = 2
    /\ \E id \in TabIdSet :
          /\ candidate[1].tabIds.items = <<id, id>>
          /\ id \in Listed(2)
          /\ Listed(2) \cap TabIdSet # {id}

\* C6: first claim wins. Every returned id is an input tab id, and an input
\* tab id that some candidate group lists is returned in the group that
\* stems from the earliest candidate group listing it, and in no other.
C6_FirstClaimWins ==
    Returned =>
        /\ \A k \in 1..Len(returned) : IdsOf(returned[k]) \subseteq TabIdSet
        /\ \A id \in TabIdSet :
              IsListed(id) =>
                  \A k \in 1..Len(returned) :
                      id \in IdsOf(returned[k]) <=>
                          (k <= Cardinality(Survivors) /\ NthSurvivor(k) = FirstLister(id))

\* candidate [{tabIds:[1,2]},{tabIds:[2,3]}] with T = <<1,2,3>>
C6_Witness ==
    /\ Returned
    /\ vTabIds = <<1, 2, 3>>
    /\ Len(candidate) = 2
    /\ candidate[1].tabIds.items = <<1, 2>>
    /\ candidate[2].tabIds.items = <<2, 3>>
    /\ Len(returned) = 2
    /\ returned[1].tabIds.items = <<1, 2>>
    /\ returned[2].tabIds.items = <<3>>

\* C7: the list ends with one appended group {Other, grey} exactly when
\* some input tab id is listed by no candidate group; its tabIds are those
\* ids in input order. Otherwise nothing is appended.
C7_OrphanSynthesis ==
    Returned =>
        IF Unclaimed # {}
        THEN /\ Len(returned) = Cardinality(Survivors) + 1
             /\ returned[Len(returned)] =
                    GroupObject("Other", Str("grey"),
                        ArrayOf(SelectSeq(vTabIds, LAMBDA id : id \in Unclaimed)))
        ELSE Len(returned) = Cardinality(Survivors)

\* two tabs are left over and come back in input order, which is not
\* numerical order
C7_Witness ==
    /\ Returned
    /\ Len(vTabIds) = 3
    /\ vTabIds[1] > vTabIds[2]
    /\ Len(candidate) = 1
    /\ candidate[1].tabIds.items = <<vTabIds[3]>>
    /\ Len(returned) = 2
    /\ returned[2].name = "Other"
    /\ returned[2].tabIds.items = <<vTabIds[1], vTabIds[2]>>

\* C8: the returned list starts with the candidate groups that keep at least
\* one id, in candidate order, each with its own name and with its kept ids in
\* the order it listed them; no returned group is empty.
C8_EmptyGroupPurge ==
    Returned =>
        /\ Len(returned) >= Cardinality(Survivors)
        /\ \A k \in 1..Len(returned) : Len(returned[k].tabIds.items) > 0
        /\ \A k \in 1..Cardinality(Survivors) :
              LET i     == NthSurvivor(k)
                  kept  == returned[k].tabIds.items
                  given == candidate[i].tabIds.items
              IN /\ returned[k].name = candidate[i].name
                 /\ Range(kept) = Claimed(i)
                 /\ NoRepeat(kept)
                 /\ \A a, b \in 1..Len(kept) :
                       a < b => FirstPos(given, kept[a]) < FirstPos(given, kept[b])

\* the first candidate group loses every id it lists and is dropped, the
\* second is returned first
C8_Witness ==
    /\ Returned
    /\ Len(candidate) = 2
    /\ Listed(1) # {}
    /\ Claimed(1) = {}
    /\ Claimed(2) # {}
    /\ candidate[1].name # candidate[2].name
    /\ returned[1].name = candidate[2].name

\* C9: every returned colour is one of the nine; a candidate group keeps a
\* colour that is one of the nine and gets grey for anything else.
C9_ColorCoercion ==
    Returned =>
        /\ \A k \in 1..Len(returned) :
              returned[k].color.t = "string" /\ returned[k].color.s \in SpecColors
        /\ \A k \in 1..Cardinality(Survivors) :
              LET c == candidate[NthSurvivor(k)].color
              IN returned[k].color =
                    IF c.t = "string" /\ c.s \in SpecColors THEN c ELSE Str("grey")

\* a magenta group comes back grey next to a blue one that stays blue
C9_Witness ==
    /\ Returned
    /\ Len(candidate) = 2
    /\ Cardinality(Survivors) = 2
    /\ candidate[1].color = Str("magenta")
    /\ candidate[2].color = Str("blue")
    /\ returned[1].color = Str("grey")
    /\ returned[2].color = Str("blue")

\* C10 as stated: once the parsed value has a non-empty array groups field,
\* a candidate of well-formed groups yields a group list and any looser
\* shape ends as InvalidJson or MissingGroups, never as another error.
C10_NoValidatorError ==
    (vDone /\ HasGroupsArray /\ Len(candidate) > 0) =>
        IF WellFormed
        THEN vResult.t = "ok"
        ELSE vResult.t \in {"InvalidJson", "MissingGroups"}

----------------------------------------------------------------------------
(* Properties of the cooldown gate (Spec) *)

PassedGate(p) == pc[p] \in {"awaitSet", "awaitTabs", "awaitFetch"} \/ sent[p] > 0
RanGate(p) == pc[p] \notin {"idle", "awaitGet"} /\ ~ConfigMissing(settings[p])
ConfiguredCooldown(p) ==
    IF settings[p].cooldown = 0 THEN 10000 ELSE settings[p].cooldown

\* C3 as stated: of two messages handled at the same time, at most one
\* reaches the provider: two handlings that both issued a request passed the
\* gate at least one cooldown apart.
C3_GateSerializes ==
    \A p, q \in Messages :
        (p # q /\ sent[p] > 0 /\ sent[q] > 0 /\ now[p] <= now[q]) =>
            now[q] - now[p] >= ConfiguredCooldown(q)

\* C4: a gate pass is in storage before the request is issued, and a
\* message that arrives after a gate pass at time t and reaches the gate at
\* t' with t' - t < cooldown is answered TooSoon and sends no request.
C4_RecordedBeforeRequest ==
    /\ \A p \in Messages :
          PassedGate(p) => storage.lastAnalysisTime >= now[p] /\ now[p] > 0
    /\ \A q \in Messages :
          (RanGate(q) /\ prior[q] # 0 /\ now[q] - prior[q] < ConfiguredCooldown(q)) =>
              /\ pc[q] = "done"
              /\ result[q].error = "TooSoon"
              /\ sent[q] = 0

\* the first request is still pending when the later message is refused
C4_Witness ==
    \E p, q \in Messages :
        /\ pc[p] = "awaitFetch"
        /\ prior[q] = now[p]
        /\ pc[q] = "done"
        /\ result[q].error = "TooSoon"
        /\ now[q] > now[p]

\* C5: with a stored timestamp the gate refuses exactly when
\* now - lastAnalysisTime < cooldown (10000 when none is configured), and the
\* reported wait is the least whole number of seconds covering the rest of
\* the cooldown; without a stored timestamp it never refuses.
C5_GateDecision ==
    \A p \in Messages :
        RanGate(p) =>
            LET last    == settings[p].lastAnalysisTime
                remains == ConfiguredCooldown(p) - (now[p] - last)
            IN IF last = 0
               THEN result[p].error # "TooSoon"
               ELSE /\ (result[p].error = "TooSoon") <=> (remains > 0)
                    /\ (result[p].error = "TooSoon") =>
                          /\ result[p].wait * 1000 >= remains
                          /\ (result[p].wait - 1) * 1000 < remains

\* gate passes attempted at t and t + 1 ms against the default cooldown:
\* the second is told to wait 10 seconds
C5_Witness ==
    \E p \in Messages :
        /\ RanGate(p)
        /\ settings[p].cooldown = 0
        /\ settings[p].lastAnalysisTime # 0
        /\ now[p] = settings[p].lastAnalysisTime + 1
        /\ result[p].error = "TooSoon"
        /\ result[p].wait = 10

IsFailure(r) == r # NoResponse /\ ~r.ok

\* C14: each handling of an analyzeTabs message issues at most one request
\* to the provider; once a handling has a failure as its result, that
\* result stays until it is delivered and no request follows it.
C14_NoRetry ==
    [][\A p \in Messages :
          /\ sent'[p] <= 1
          /\ IsFailure(result[p]) =>
                \/ pc'[p] = "idle"
                \/ /\ pc[p] = "done" /\ pc'[p] = "done"
                   /\ result'[p] = result[p]
                   /\ sent'[p] = sent[p]]_vars

\* a handling whose one request failed at the transport is about to answer
C14_Witness ==
    \E p \in Messages :
        /\ pc[p] = "done"
        /\ sent[p] = 1
        /\ result[p] = Failure("RateLimited")

\* the stored settings name no credential for the selected provider
NotConfigured(s) ==
    \/ s.provider = "ollama" /\ s.ollamaUrl = ""
    \/ s.provider # "ollama" /\ s.apiKey = ""

\* C15: when the provider is ollama and no ollamaUrl is stored, or the
\* provider is anything else and no apiKey is stored, the handler fails with
\* the configuration error, and no request is made.
C15_ConfigErrorFirst ==
    \A p \in Messages :
        pc[p] \notin {"idle", "awaitGet"} /\ NotConfigured(settings[p]) =>
            /\ pc[p] = "done"
            /\ result[p] = Failure("ConfigError")
            /\ sent[p] = 0
            /\ wire[p] = NoRequest

\* ollama without a URL has been refused
C15_Witness ==
    \E p \in Messages :
        /\ pc[p] = "done"
        /\ settings[p].provider = "ollama"
        /\ settings[p].ollamaUrl = ""
        /\ result[p] = Failure("ConfigError")

\* C18: the only tab data sent to the provider are titles and URLs of the
\* tabs of the current window; no other tab field is in the request body.
\* (Requests are made by handleAnalyzeTabs only: every request of the model
\* is issued by SendRequest.)
C18_OnlyTitlesAndUrls ==
    \A p \in Messages :
        wire[p] # NoRequest => wire[p].tabFields \subseteq {"title", "url"}

----------------------------------------------------------------------------
(* Properties of handleApplyGroups (SpecApply) *)

\* every call of tabs.group had a non-empty id list of tabs that were open
\* when the handler looked
OnlyOpenTabsGrouped ==
    \A k \in 1..Len(aCalls) :
        /\ aCalls[k].tabIds # <<>>
        /\ Range(aCalls[k].tabIds) \subseteq aValid
        /\ Range(aCalls[k].tabIds) \subseteq Range(aGroups[aCalls[k].index].tabIds.items)

\* once the loop is over, every group with an open tab has been attempted,
\* whatever happened to the groups before it
EveryGroupAttempted ==
    aPc = "done" /\ aValid # {} =>
        {aCalls[k].index : k \in 1..Len(aCalls)} =
            {i \in 1..Len(aGroups) : Range(aGroups[i].tabIds.items) \cap aValid # {}}

\* ok exactly when the browser has created a group
OkIffGroupCreated ==
    aPc = "done" =>
        /\ aResult.ok <=> aCreated # {}
        /\ ~aResult.ok /\ aValid # {} => aResult = Failure("NoGroupsApplied")

\* C17: tabs.group is called only with non-empty lists of ids of tabs open
\* in the current window at apply time; a rejected group does not stop the
\* later groups from being attempted; and the response is ok exactly when
\* at least one group was created in the browser, "No groups could be
\* applied" otherwise.
C17_ApplyPartialFailure ==
    /\ OnlyOpenTabsGrouped
    /\ EveryGroupAttempted
    /\ OkIffGroupCreated

----------------------------------------------------------------------------
(* Properties of the onMessage listener (SpecListener) *)

AtMostOneResponse ==
    \A m \in ListenerMessages :
        /\ Len(lResponses[m]) <= 1
        /\ lPc[m] = "responded" <=> Len(lResponses[m]) = 1
        /\ lPc[m] = "pending" => lAction[m] \in {"analyzeTabs", "applyGroups"} /\ lOpen[m]
        /\ lOpen[m] => lPc[m] = "pending" /\ lOutcome[m] = "none"
        /\ lPc[m] = "responded" =>
              IF lAction[m] \in {"analyzeTabs", "applyGroups"}
              THEN /\ lOutcome[m] # "none"
                   /\ lResponses[m][1].ok <=> lOutcome[m] = "resolved"
              ELSE /\ lOutcome[m] = "none"
                   /\ lResponses[m][1] = Failure("Unknown action: getPendingGroups")

\* C20: every message delivered to the listener receives exactly one
\* response: at once the Unknown action error for an action without a
\* handler, otherwise one response after the promise of the handler has
\* settled, ok on resolve and an error on reject, the channel being held
\* open until then.
C20_SingleShot ==
    /\ []AtMostOneResponse
    /\ \A m \in ListenerMessages :
          lPc[m] = "delivered" ~> Len(lResponses[m]) = 1

\* one message was refused at once, one is held open, one was answered
\* after its handler rejected
C20_Witness ==
    \E m, n, k \in ListenerMessages :
        /\ lAction[m] = "getPendingGroups" /\ lPc[m] = "responded" /\ ~lOpen[m]
        /\ lAction[n] = "analyzeTabs" /\ lPc[n] = "pending" /\ lOpen[n]
        /\ lAction[k] = "applyGroups" /\ lOutcome[k] = "rejected"
        /\ lResponses[k] = <<Failure("NoGroupsApplied")>>

\* C22: a handling that ends with the configuration error or with TooSoon
\* leaves lastAnalysisTime in storage as it was (the timestamp changes only
\* when some handling passes the gate), so a refusal does not extend the
\* cooldown: a handling that reads timestamp t and reaches the gate at or
\* after t + cooldown is not refused.
C22_RejectionLeavesGate ==
    /\ [][/\ \A p \in Messages :
                (pc[p] = "awaitGet" /\ pc'[p] = "done") =>
                    /\ result'[p].error \in {"ConfigError", "TooSoon"}
                    /\ storage' = storage
          /\ storage'.lastAnalysisTime # storage.lastAnalysisTime =>
                \E p \in Messages :
                    /\ pc[p] = "awaitGet" /\ pc'[p] = "awaitSet"
                    /\ storage'.lastAnalysisTime = now'[p]]_vars
    /\ [](\A q \in Messages :
            (pc[q] \notin {"idle", "awaitGet"}
               /\ ~NotConfigured(settings[q])
               /\ settings[q].lastAnalysisTime # 0
               /\ now[q] - settings[q].lastAnalysisTime >= ConfiguredCooldown(q)) =>
                result[q].error \notin {"TooSoon", "ConfigError"})

\* one handling was refused inside the cooldown; a later one, which read
\* the same timestamp, passes exactly when the cooldown is over
C22_Witness ==
    \E p, q \in Messages :
        /\ pc[p] = "done"
        /\ result[p].error = "TooSoon"
        /\ pc[q] = "awaitSet"
        /\ settings[q].lastAnalysisTime = settings[p].lastAnalysisTime
        /\ now[q] > now[p]
        /\ now[q] - settings[q].lastAnalysisTime = ConfiguredCooldown(q)

----------------------------------------------------------------------------
(* Properties of the settings pages (SpecSettings) *)

LoopbackHosts == {"localhost", "127.0.0.1"}

\* the URL the user typed names a host that is not loopback, or no host
NotLoopbackUrl(urlValue) ==
    urlValue \notin {"http://localhost:11434", "http://LOCALHOST:11434",
                     "http://127.0.0.1:11434"}

\* C19: a stored ollamaUrl is empty or a URL whose hostname is localhost or
\* 127.0.0.1, so a request for provider ollama goes to a loopback host; a
\* save with a non-loopback or unparsable URL is rejected and leaves storage
\* unchanged.
C19_LoopbackOnly ==
    /\ [](/\ store.ollamaUrl = "" \/ Hostname(store.ollamaUrl) \in LoopbackHosts
          /\ store.provider = "ollama" =>
                RequestOf("ollama", SettingsOf(store), <<1>>).host \in LoopbackHosts)
    /\ [][sLast' # sLast /\ sLast'.provider = "ollama" =>
            IF NotLoopbackUrl(sLast'.urlValue)
            THEN sLast'.outcome = "rejected" /\ store' = store
            ELSE sLast'.outcome = "saved" /\ store'.ollamaUrl = sLast'.urlValue]_vars

\* a save of a URL with localhost before an @ has been rejected on one
\* page while ollama with a loopback URL is stored
C19_Witness ==
    /\ sLast.provider = "ollama"
    /\ sLast.urlValue = "http://localhost@evil.example"
    /\ sLast.outcome = "rejected"
    /\ store.provider = "ollama"
    /\ store.ollamaUrl = "http://LOCALHOST:11434"

\* C21: with the single-key settings page, whatever the saves and their
\* interleaving, the stored apiKey is empty or a key entered for the stored
\* provider, so the key handleAnalyzeTabs sends goes to the provider it was
\* entered for.
C21_KeyStaysWithProvider ==
    sVersion = "singleKey" =>
        LET settingsRead == SettingsOf(store)
            provider     == ProviderOf(settingsRead)
            request      == RequestOf(provider, settingsRead, <<1>>)
        IN /\ store.apiKey \in KeyInputs(provider) \cup {""}
           /\ request.key \in KeyInputs(request.provider) \cup {""}

\* a step of the Save handler of the per-provider page: the page is loaded
\* and stays so, and something is written or reported
PerProviderSaveStep ==
    /\ sVersion = "perProvider"
    /\ oPc = "ready" /\ oPc' = "ready"
    /\ store' # store \/ sLast' # sLast

\* C23: a save of the per-provider page writes only provider, cooldown, the
\* model of the active provider and, when a value was entered, its
\* credential; the credentials and models of the other providers (and the
\* keys of the single-key page) stay; a save that fails validation (empty
\* custom model, empty, invalid or non-loopback Ollama URL) writes nothing.
C23_PerProviderSaveFramed ==
    [][PerProviderSaveStep =>
        LET active == sLast'.provider
        IN IF sLast'.outcome = "rejected"
           THEN store' = store
           ELSE /\ store'.provider = active
                /\ store'.cooldown \in CooldownInputs
                /\ store'.models[active] # ""
                /\ \A q \in Providers \ {active} : store'.models[q] = store.models[q]
                /\ \A q \in KeyProviders \ {active} : store'.keys[q] = store.keys[q]
                /\ store'.apiKey = store.apiKey
                /\ store'.model = store.model
                /\ IF active = "ollama"
                   THEN /\ ~NotLoopbackUrl(sLast'.urlValue)
                        /\ store'.ollamaUrl = sLast'.urlValue
                        /\ store'.keys = store.keys
                   ELSE /\ store'.ollamaUrl = store.ollamaUrl
                        /\ \/ store'.keys[active] = store.keys[active]
                           \/ store'.keys[active] \in KeyInputs(active) \ {""}]_vars

\* openai has just been saved on the per-provider page while a key and a
\* model of claude and an Ollama URL are stored
C23_Witness ==
    /\ sVersion = "perProvider"
    /\ oPc = "ready"
    /\ sLast = Attempt("openai", "", "saved")
    /\ store.provider = "openai"
    /\ store.keys["openai"] # ""
    /\ store.keys["claude"] # ""
    /\ store.models["claude"] # ""
    /\ store.ollamaUrl # ""

----------------------------------------------------------------------------
(* Properties of the response parser (SpecParse) *)

HasNonEmptyGroupsArray ==
    /\ vParsed.t = "object"
    /\ vParsed.groups.t = "array"
    /\ Len(vParsed.groups.items) > 0

\* C11 as stated: for every text the outcome is a candidate, InvalidJson
\* (exactly when JSON.parse throws) or MissingGroups (whenever the parsed
\* value has no non-empty array groups field, also when it is null, a
\* number or a string).
C11_ParserTotal ==
    vDone =>
        /\ vResult.t \in {"ok", "InvalidJson", "MissingGroups"}
        /\ (vResult.t = "InvalidJson") <=> (vParsed.t = "SyntaxError")
        /\ (vParsed.t # "SyntaxError" /\ ~HasNonEmptyGroupsArray) =>
              vResult.t = "MissingGroups"

WithoutWhitespace(text) == SelectSeq(text, LAMBDA tok : tok \notin Whitespace)
FirstFence(text) == CHOOSE i \in 1..Len(text) : text[i] = Fence /\ \A j \in 1..(i - 1) : text[j] # Fence

\* text is doc between an opening fence (bare or tagged json) and a closing
\* fence, with any whitespace before, between and after them
FencedForm(text, doc) ==
    \/ WithoutWhitespace(text) = <<Fence, doc, Fence>>
    \/ /\ WithoutWhitespace(text) = <<Fence, JsonTag, doc, Fence>>
       /\ text[FirstFence(text) + 1] = JsonTag

\* C16 as stated: a JSON document wrapped in an opening fence and a closing
\* fence, with or without whitespace or newlines around them, gives the same
\* outcome as the document alone.
C16_FenceStripping ==
    vDone =>
        \A doc \in JsonTexts :
            FencedForm(vText, doc) =>
                vResult = parseAndValidateGroups(ParsedOf(<<doc>>), vTabIds)

----------------------------------------------------------------------------
(* Properties of callAPI and extractText (SpecExtract) *)

\* the value at the end of the property path of the provider
FieldAtPath == 
    IF xApi.value.t = "object" /\ xApi.value.shape = PathOf(xProvider)
    THEN xApi.value.field ELSE Absent

UsableText(v) == v.t = "string" /\ v.text # <<>>

\* C12: extractText fails with EmptyResponse whenever the text field of the
\* provider is absent, empty or not a string, and otherwise returns exactly
\* the text of that field.
C12_ExtractText ==
    xText.t # "none" =>
        IF UsableText(FieldAtPath)
        THEN xText = TextOutcome("returned", FieldAtPath)
        ELSE xText.t = "EmptyResponse"

FourTransportErrors == {"NetworkError", "Unauthorized", "RateLimited", "ApiError"}

\* C13: a rejected fetch yields NetworkError carrying the low-level message;
\* status 401 yields the fixed Unauthorized message and 429 the fixed
\* RateLimited message whatever the provider and the body; every other
\* status outside 200..299 yields ApiError; a status in 200..299 yields none
\* of the four.
C13_TransportClassification ==
    xApi.t # "none" =>
        IF xFetch.settled = "rejected"
        THEN /\ xApi.t = "threw" /\ xApi.error = "NetworkError"
             /\ xApi.message.parts = <<"Network error: ", xFetch.msg>>
        ELSE IF xFetch.status = 401
        THEN /\ xApi.t = "threw" /\ xApi.error = "Unauthorized"
             /\ xApi.message = Message(<<"Invalid API key. Check Settings.">>, 0)
        ELSE IF xFetch.status = 429
        THEN /\ xApi.t = "threw" /\ xApi.error = "RateLimited"
             /\ xApi.message =
                  Message(<<"Rate limited by provider. Wait a moment and try again.">>, 0)
        ELSE IF xFetch.status \in 200..299
        THEN ~(xApi.t = "threw" /\ xApi.error \in FourTransportErrors)
        ELSE xApi.t = "threw" /\ xApi.error = "ApiError"

\* a 429 with a JSON error body, ollama selected, has been classified; so
\* has a 204 (inside 200..299, not 200)
C13_Witness ==
    /\ xApi.t = "threw"
    /\ xFetch.settled = "response"
    /\ xFetch.status = 429
    /\ xFetch.body.kind = "errorMessage"
    /\ xProvider = "ollama"

====
